---- MODULE Spec2Model ----
(***************************************************************************)
(* Agent-to-agent task orchestration: the executor agent                   *)
(* (backend/agents/executor_agent.py) consuming its Redis stream through   *)
(* RedisA2ATransport.subscribe (backend/a2a/redis_transport.py), with the  *)
(* tool registry (backend/mcp/tool_registry.py), the message envelope      *)
(* (backend/a2a/protocol.py) and the planner agent                         *)
(* (backend/agents/planner_agent.py).                                      *)
(***************************************************************************)
EXTENDS Integers, Sequences, FiniteSets, TLC

VARIABLES
    tools,          \* ToolRegistry.tools: tool_id -> manifest
    stream,         \* the Redis stream agents:executor.agent.v1 (entries in XADD order)
    last_delivered, \* consumer group "default": number of entries handed out by XREADGROUP ">"
    pending,        \* consumer group "default": ids delivered and not yet XACKed
    running,        \* RedisA2ATransport.running of the executor's transport
    pc,             \* where subscribe() stands: "idle", "setup", "loop", "read",
                    \* "batch", "stopped", "crashed"
    batch,          \* the ids returned by the last XREADGROUP and not yet processed
    running_tasks,  \* ExecutorAgent.running_tasks: task_id -> parked task
    published,      \* every call of transport.publish by the executor, in order
    tool_calls,     \* every invocation of a tool collaborator (_execute_*), in order
    handled,        \* one record per entry the subscribe loop has processed, in order
    faults,         \* number of Redis calls that have failed on connectivity so far
    stop_called,    \* stop() has been called while subscribe() was running
    call            \* a single call of a function under study: its arguments and its result

vars == <<tools, stream, last_delivered, pending, running, pc, batch,
          running_tasks, published, tool_calls, handled, faults,
          stop_called, call>>

\* the executor's process: registry, stream, consumer group, transport, agent
sys == <<tools, stream, last_delivered, pending, running, pc, batch,
         running_tasks, published, tool_calls, handled, faults>>

\* what the stream consumer's steps leave alone
aux == <<stop_called, call>>

----------------------------------------------------------------------------
(* Bounds of the model *)

\* at most this many entries are ever appended to the executor's stream
MaxEntries == 3
\* at most this many Redis calls (XGROUP CREATE, XADD, XACK) fail in one behaviour
MaxFaults == 1

(* Program constants *)

\* xreadgroup(..., count=10, ...)
BatchCount == 10

None == "None"
ExecutorId == "executor.agent.v1"
PlannerId == "planner.agent.v1"
Director == "director"

\* task_id values a TASK_REQUEST / APPROVAL_RESPONSE payload may carry;
\* None stands for a payload without a (string) task_id
TaskIds == {"t1", "t2"}
TaskIdValues == TaskIds \cup {None}
\* the trace_id a planner gives the request of each task: trace ids are
\* opaque, so one distinct value per request stands for any choice
TraceOf(task_id) == "trace-" \o task_id
\* the trace_id of the director's own envelopes
DirectorTrace == "trace-director"

----------------------------------------------------------------------------
(* JSON values and input maps.  An input map is a Python dict: a sequence  *)
(* of (name, value) pairs with pairwise distinct names, in insertion       *)
(* order.                                                                  *)

StrVal == [t |-> "str", v |-> 0]
IntVal(n) == [t |-> "int", v |-> n]
BoolVal(b) == [t |-> "bool", v |-> IF b THEN 1 ELSE 0]
FloatVal == [t |-> "float", v |-> 0]

Pair(n, val) == [name |-> n, value |-> val]
Keys(inputs) == {inputs[i].name : i \in DOMAIN inputs}
Lookup(inputs, n) == inputs[CHOOSE i \in DOMAIN inputs : inputs[i].name = n].value

\* isinstance(value, str) / isinstance(value, int) / isinstance(value, bool):
\* Python's bool is a subclass of int
IsInstance(val, ty) ==
    CASE ty = "str"  -> val.t = "str"
      [] ty = "int"  -> val.t \in {"int", "bool"}
      [] ty = "bool" -> val.t = "bool"
      [] OTHER       -> FALSE

Min(S) == CHOOSE x \in S : \A y \in S : x <= y

----------------------------------------------------------------------------
(* Tool registry *)

Param(n, ty, req) == [name |-> n, type |-> ty, required |-> req]
NoConstraints == [c \in {} |-> 0]

\* The manifests loaded from backend/mcp/manifests/*.json by load_manifests
Manifests ==
    [id \in {"analyzer.eda", "executor.run_code", "kaggle.dataset.download"} |->
        CASE id = "analyzer.eda" ->
                [tool_id |-> id,
                 inputs |-> <<Param("dataset_path", "string", TRUE)>>,
                 constraints |-> NoConstraints,
                 approval_required |-> FALSE]
          [] id = "executor.run_code" ->
                [tool_id |-> id,
                 inputs |-> <<Param("script_path", "string", TRUE)>>,
                 constraints |-> NoConstraints,
                 approval_required |-> TRUE]
          [] OTHER ->
                [tool_id |-> id,
                 inputs |-> <<Param("dataset_ref", "string", TRUE),
                              Param("size_mb", "integer", FALSE)>>,
                 constraints |-> [c \in {"max_size_mb"} |-> 100],
                 approval_required |-> FALSE]]

\* ToolRegistry.get_tool: self.tools.get(tool_id); None when absent
HasTool(reg, tool_id) == tool_id \in DOMAIN reg
get_tool(reg, tool_id) == reg[tool_id]

ParamNames(tool) == {tool.inputs[i].name : i \in DOMAIN tool.inputs}
ParamType(tool, n) ==
    tool.inputs[CHOOSE i \in DOMAIN tool.inputs : tool.inputs[i].name = n].type

Ok == [valid |-> TRUE, error |-> <<>>]
Fail(err) == [valid |-> FALSE, error |-> err]

\* variant: a key the manifest does not declare is passed over
InputErrorOpen(tool, p) ==
    IF p.name \notin ParamNames(tool) THEN <<>>
    ELSE LET ty == ParamType(tool, p.name) IN
         IF ty = "string" /\ ~IsInstance(p.value, "str")
            THEN <<"Parameter must be string: ", p.name>>
         ELSE IF ty = "integer" /\ ~IsInstance(p.value, "int")
            THEN <<"Parameter must be integer: ", p.name>>
         ELSE IF ty = "boolean" /\ ~IsInstance(p.value, "bool")
            THEN <<"Parameter must be boolean: ", p.name>>
         ELSE <<>>

\* the type check of one supplied (name, value) pair, in the order of the code
InputError(tool, p) ==
    IF p.name \notin ParamNames(tool) THEN <<"Unknown parameter: ", p.name>>
    ELSE LET ty == ParamType(tool, p.name) IN
         IF ty = "string" /\ ~IsInstance(p.value, "str")
            THEN <<"Parameter must be string: ", p.name>>
         ELSE IF ty = "integer" /\ ~IsInstance(p.value, "int")
            THEN <<"Parameter must be integer: ", p.name>>
         ELSE IF ty = "boolean" /\ ~IsInstance(p.value, "bool")
            THEN <<"Parameter must be boolean: ", p.name>>
         ELSE <<>>

\* ToolRegistry.validate_inputs
validate_inputs(reg, tool_id, inputs) ==
    IF ~HasTool(reg, tool_id) THEN Fail(<<"Tool not found: ", tool_id>>)
    ELSE
      LET tool == get_tool(reg, tool_id)
          missing == {i \in DOMAIN tool.inputs :
                        tool.inputs[i].required /\ tool.inputs[i].name \notin Keys(inputs)}
          bad == {i \in DOMAIN inputs : InputError(tool, inputs[i]) # <<>>}
      IN  IF missing # {}
             THEN Fail(<<"Missing required parameter: ", tool.inputs[Min(missing)].name>>)
          ELSE IF bad # {}
             THEN Fail(InputError(tool, inputs[Min(bad)]))
          ELSE Ok

\* ToolRegistry.check_constraints
check_constraints(reg, tool_id, inputs) ==
    IF ~HasTool(reg, tool_id) THEN Fail(<<"Tool not found: ", tool_id>>)
    ELSE
      LET constraints == get_tool(reg, tool_id).constraints IN
      IF /\ "max_size_mb" \in DOMAIN constraints
         /\ "size_mb" \in Keys(inputs)
         /\ Lookup(inputs, "size_mb").v > constraints["max_size_mb"]
         THEN Fail(<<"Size exceeds limit">>)
         ELSE Ok

----------------------------------------------------------------------------
(* Message envelope (protocol.py).  One record shape for every payload     *)
(* variant; a field a variant does not have holds None / <<>> / FALSE.     *)

\* A2AMessage.create: trace_id or str(uuid.uuid4())
create(msg_type, from_agent, to_agent, trace_id, payload) ==
    [type |-> msg_type, from_agent |-> from_agent, to_agent |-> to_agent,
     trace_id |-> IF trace_id = "" THEN "fresh-uuid" ELSE trace_id,
     payload |-> payload]

Payload(task_id, tool_id, inputs, decision, status, progress, error, outputs) ==
    [task_id |-> task_id, tool_id |-> tool_id, inputs |-> inputs,
     decision |-> decision, status |-> status, progress |-> progress,
     error |-> error, outputs |-> outputs]

\* progress is counted in tenths; NoProgress stands for progress=None
NoProgress == 0 - 1

\* create_task_status(from_agent, to_agent, task_id, status, progress, trace_id)
create_task_status(from_agent, to_agent, task_id, status, progress, trace_id) ==
    create("TASK_STATUS", from_agent, to_agent, trace_id,
           Payload(task_id, None, <<>>, FALSE, status, progress, <<>>, None))

\* create_task_result(from_agent, to_agent, task_id, status, outputs, error, trace_id)
create_task_result(from_agent, to_agent, task_id, status, outputs, error, trace_id) ==
    create("TASK_RESULT", from_agent, to_agent, trace_id,
           Payload(task_id, None, <<>>, FALSE, status, NoProgress, error, outputs))

\* the APPROVAL_REQUEST envelope built in _request_approval
create_approval_request(from_agent, task_id, trace_id) ==
    create("APPROVAL_REQUEST", from_agent, Director, trace_id,
           Payload(task_id, None, <<>>, FALSE, None, NoProgress, <<>>, None))

\* the pydantic payload models declare task_id: str; None fails validation
ValidTaskId(task_id) == task_id # None

----------------------------------------------------------------------------
(* Executor agent.  A handler run is summarised by the messages it passes  *)
(* to transport.publish (pubs), the tool collaborators it invokes (calls,  *)
(* each with the number of publish calls made before it), whether it       *)
(* raised, and the parked-task table it leaves (rt).                       *)

Outcome(pubs, calls, raised, rt) ==
    [pubs |-> pubs, calls |-> calls, raised |-> raised, rt |-> rt]

Put(f, k, val) == [x \in (DOMAIN f) \cup {k} |-> IF x = k THEN val ELSE f[x]]
Del(f, k) == [x \in (DOMAIN f) \ {k} |-> f[x]]

\* the tool ids _execute_tool dispatches to a collaborator
Implemented == {"kaggle.dataset.download", "analyzer.eda", "executor.run_code"}

\* variant: the progress updates count down
ProgressStepsDecreasing == <<9, 6, 3>>

\* the progress updates sent after the collaborator returned, in tenths
ProgressSteps == <<3, 6, 9>>

\* variant: no except branch, the collaborator's exception leaves the handler
ToolFailurePropagates(message, start, calls, rt) ==
    Outcome(<<start>>, calls, TRUE, rt)

\* the except branch of _execute_tool: the exception becomes a failed result
ToolFailure(message, start, calls, rt) ==
    Outcome(<<start,
              create_task_result(ExecutorId, message.from_agent,
                                 message.payload.task_id, "failed",
                                 None, <<"tool raised">>, message.trace_id)>>,
            calls, FALSE, rt)

\* variant: the result is sent as soon as the collaborator returned, the
\* progress updates after it
_execute_tool_late_status(message, tool, inputs, toolOk, rt) ==
    LET task_id == message.payload.task_id
        tool_id == tool.tool_id
        to      == message.from_agent
        trace   == message.trace_id
        start   == create_task_status(ExecutorId, to, task_id, "running", 0, trace)
        calls   == IF tool_id \in Implemented
                      THEN <<[task_id |-> task_id, tool_id |-> tool_id,
                              inputs |-> inputs, after |-> 1]>>
                      ELSE <<>>
        steps   == [i \in DOMAIN ProgressSteps |->
                       create_task_status(ExecutorId, to, task_id, "running",
                                          ProgressSteps[i], trace)]
    IN  IF ~ValidTaskId(task_id)
           THEN Outcome(<<>>, <<>>, TRUE, rt)
        ELSE IF toolOk \/ tool_id \notin Implemented
           THEN Outcome(<<start,
                          create_task_result(ExecutorId, to, task_id, "completed",
                                             "outputs", <<>>, trace)>> \o steps,
                        calls, FALSE, rt)
        ELSE ToolFailure(message, start, calls, rt)

\* ExecutorAgent._execute_tool; toolOk: the collaborator returns (TRUE) or raises
_execute_tool(message, tool, inputs, toolOk, rt) ==
    LET task_id == message.payload.task_id
        tool_id == tool.tool_id
        to      == message.from_agent
        trace   == message.trace_id
        start   == create_task_status(ExecutorId, to, task_id, "running", 0, trace)
        calls   == IF tool_id \in Implemented
                      THEN <<[task_id |-> task_id, tool_id |-> tool_id,
                              inputs |-> inputs, after |-> 1]>>
                      ELSE <<>>
        steps   == [i \in DOMAIN ProgressSteps |->
                       create_task_status(ExecutorId, to, task_id, "running",
                                          ProgressSteps[i], trace)]
    IN  IF ~ValidTaskId(task_id)
           THEN Outcome(<<>>, <<>>, TRUE, rt)
        ELSE IF toolOk \/ tool_id \notin Implemented
           THEN Outcome(<<start>> \o steps \o
                        <<create_task_result(ExecutorId, to, task_id, "completed",
                                             "outputs", <<>>, trace)>>,
                        calls, FALSE, rt)
        ELSE ToolFailure(message, start, calls, rt)

\* variant: the error is logged and nothing is published
_send_error_log_only(message, error, rt) ==
    Outcome(<<>>, <<>>, ~ValidTaskId(message.payload.task_id), rt)

\* ExecutorAgent._send_error
_send_error(message, error, rt) ==
    IF ~ValidTaskId(message.payload.task_id)
       THEN Outcome(<<>>, <<>>, TRUE, rt)
       ELSE Outcome(<<create_task_result(ExecutorId, message.from_agent,
                                         message.payload.task_id, "failed",
                                         None, error, message.trace_id)>>,
                    <<>>, FALSE, rt)

\* variant: the approval request is sent and the task is not stored
_request_approval_unparked(message, tool, rt) ==
    IF ~ValidTaskId(message.payload.task_id)
       THEN Outcome(<<>>, <<>>, TRUE, rt)
       ELSE Outcome(<<create_approval_request(ExecutorId, message.payload.task_id,
                                              message.trace_id)>>,
                    <<>>, FALSE, rt)

\* ExecutorAgent._request_approval
_request_approval(message, tool, rt) ==
    LET task_id == message.payload.task_id
        parked  == Put(rt, task_id, [message |-> message, tool |-> tool,
                                     status |-> "awaiting_approval"])
    IN  IF ~ValidTaskId(task_id)
           THEN Outcome(<<>>, <<>>, TRUE, parked)
           ELSE Outcome(<<create_approval_request(ExecutorId, task_id, message.trace_id)>>,
                        <<>>, FALSE, parked)

\* variant: the approval_required flag is not looked at
NeedsApprovalNever(tool) == FALSE

\* "if tool.get('approval_required', False)"
NeedsApproval(tool) == tool.approval_required

\* ExecutorAgent._handle_task_request
_handle_task_request(message, reg, toolOk, rt) ==
    LET tool_id == message.payload.tool_id
        inputs  == message.payload.inputs
        check   == validate_inputs(reg, tool_id, inputs)
    IN  IF ~HasTool(reg, tool_id)
           THEN _send_error(message, <<"Tool not found: ", tool_id>>, rt)
        ELSE IF ~check.valid
           THEN _send_error(message, <<"Invalid inputs: ">> \o check.error, rt)
        ELSE IF NeedsApproval(get_tool(reg, tool_id))
           THEN _request_approval(message, get_tool(reg, tool_id), rt)
        ELSE _execute_tool(message, get_tool(reg, tool_id), inputs, toolOk, rt)

\* variant: no membership test, self.running_tasks[task_id] raises KeyError
UnknownTaskRaises(message, rt) == Outcome(<<>>, <<>>, TRUE, rt)

\* variant: the parked task is not deleted
UnparkForgotten(rt, task_id) == rt

\* "if task_id not in self.running_tasks": a warning is logged
UnknownTask(message, rt) == Outcome(<<>>, <<>>, FALSE, rt)

\* "del self.running_tasks[task_id]"
Unpark(rt, task_id) == Del(rt, task_id)

\* ExecutorAgent._handle_approval_response
_handle_approval_response(message, toolOk, rt) ==
    LET task_id == message.payload.task_id IN
    IF task_id \notin DOMAIN rt
       THEN UnknownTask(message, rt)
    ELSE
      LET task_info == rt[task_id] IN
      IF message.payload.decision
         THEN LET run == _execute_tool(task_info.message, task_info.tool,
                                       task_info.message.payload.inputs, toolOk, rt)
              IN  IF run.raised THEN run
                  ELSE Outcome(run.pubs, run.calls, FALSE, Unpark(rt, task_id))
      ELSE IF ~ValidTaskId(task_id)
         THEN Outcome(<<>>, <<>>, TRUE, rt)
      ELSE Outcome(<<create_task_result(ExecutorId, task_info.message.from_agent,
                                        task_id, "rejected", None,
                                        <<"Approval denied">>,
                                        task_info.message.trace_id)>>,
                   <<>>, FALSE, Unpark(rt, task_id))

\* variant: an approved task is looked up in the registry and validated
\* again before it runs
handle_message_revalidating(message, reg, toolOk, rt) ==
    LET task_id == message.payload.task_id IN
    IF /\ message.type = "APPROVAL_RESPONSE"
       /\ task_id \in DOMAIN rt
       /\ message.payload.decision
       THEN LET parked == rt[task_id].message
                 tool_id == parked.payload.tool_id
                 check == validate_inputs(reg, tool_id, parked.payload.inputs)
            IN  IF ~HasTool(reg, tool_id)
                   THEN _send_error(parked, <<"Tool not found: ", tool_id>>,
                                    Unpark(rt, task_id))
                ELSE IF ~check.valid
                   THEN _send_error(parked, <<"Invalid inputs: ">> \o check.error,
                                    Unpark(rt, task_id))
                ELSE _execute_tool(parked, get_tool(reg, tool_id),
                                   parked.payload.inputs, toolOk, Unpark(rt, task_id))
    ELSE IF message.type = "TASK_REQUEST"
       THEN _handle_task_request(message, reg, toolOk, rt)
    ELSE IF message.type = "APPROVAL_RESPONSE"
       THEN _handle_approval_response(message, toolOk, rt)
    ELSE Outcome(<<>>, <<>>, FALSE, rt)

\* ExecutorAgent.handle_message
handle_message(message, reg, toolOk, rt) ==
    IF message.type = "TASK_REQUEST"
       THEN _handle_task_request(message, reg, toolOk, rt)
    ELSE IF message.type = "APPROVAL_RESPONSE"
       THEN _handle_approval_response(message, toolOk, rt)
    ELSE Outcome(<<>>, <<>>, FALSE, rt)

----------------------------------------------------------------------------
(* What other agents append to the executor's stream *)

BlankPayload == Payload(None, None, <<>>, FALSE, None, NoProgress, <<>>, None)

\* a stream entry: {"message": <json>} ("msg": the json deserializes to an
\* A2AMessage; "garbage": it does not), or an entry without a message field
Entry(kind, msg) == [kind |-> kind, msg |-> msg]
BlankMsg == [type |-> None, from_agent |-> None, to_agent |-> None,
             trace_id |-> None, payload |-> BlankPayload]

\* create_task_request(from_agent, to_agent, task_id, tool_id, inputs, trace_id)
create_task_request(from_agent, to_agent, task_id, tool_id, inputs, trace_id) ==
    create("TASK_REQUEST", from_agent, to_agent, trace_id,
           Payload(task_id, tool_id, inputs, FALSE, None, NoProgress, <<>>, None))

\* an APPROVAL_RESPONSE envelope with payload ApprovalResponse{task_id, decision}
create_approval_response(from_agent, task_id, decision, trace_id) ==
    [type |-> "APPROVAL_RESPONSE", from_agent |-> from_agent, to_agent |-> ExecutorId,
     trace_id |-> trace_id,
     payload |-> Payload(task_id, None, <<>>, decision, None, NoProgress, <<>>, None)]

\* the (tool_id, inputs) pairs requests are drawn from
RequestChoices ==
    { <<"analyzer.eda", <<Pair("dataset_path", StrVal)>> >>,
      <<"analyzer.eda", <<Pair("dataset_path", StrVal),
                          Pair("unexpected_field", IntVal(1))>> >>,
      <<"executor.run_code", <<Pair("script_path", StrVal)>> >>,
      <<"executor.run_code", <<>> >>,
      <<"kaggle.dataset.download", <<Pair("dataset_ref", StrVal),
                                     Pair("size_mb", IntVal(5000))>> >>,
      <<"nonexistent.tool", <<>> >> }

\* the requests sent without a task_id
NoIdChoices ==
    { c \in RequestChoices :
        c \in { <<"analyzer.eda", <<Pair("dataset_path", StrVal)>> >>,
                <<"executor.run_code", <<Pair("script_path", StrVal)>> >>,
                <<"nonexistent.tool", <<>> >> } }

IsRequest(e) == e.kind = "msg" /\ e.msg.type = "TASK_REQUEST"
IsResponse(e) == e.kind = "msg" /\ e.msg.type = "APPROVAL_RESPONSE"

\* task_id is unique per invocation: two entries with one task_id are the
\* same request, sent or delivered twice
FreshOrSame(m) ==
    \A i \in DOMAIN stream :
        (IsRequest(stream[i]) /\ stream[i].msg.payload.task_id = m.payload.task_id)
            => stream[i].msg = m

\* task ids are fresh uuids, opaque to the code: the first one in use is
\* called "t1", the next one "t2"
FirstFresh(task_id) ==
    task_id = "t2" =>
        \E i \in DOMAIN stream :
            IsRequest(stream[i]) /\ stream[i].msg.payload.task_id = "t1"

\* a planner publishes a TASK_REQUEST to agents:executor.agent.v1
SendTaskRequest ==
    /\ Len(stream) < MaxEntries
    /\ \E task_id \in TaskIdValues, c \in RequestChoices :
         LET m == create_task_request(PlannerId, ExecutorId, task_id, c[1], c[2],
                                      TraceOf(task_id))
         IN  /\ FreshOrSame(m)
             /\ FirstFresh(task_id)
             /\ task_id = None => c \in NoIdChoices
             /\ stream' = Append(stream, Entry("msg", m))
    /\ UNCHANGED <<tools, last_delivered, pending, running, pc, batch,
                   running_tasks, published, tool_calls, handled, faults>>
    /\ UNCHANGED aux

\* the director publishes an APPROVAL_RESPONSE to agents:executor.agent.v1
SendApprovalResponse ==
    /\ Len(stream) < MaxEntries
    /\ \E task_id \in TaskIdValues, decision \in BOOLEAN :
         stream' = Append(stream,
                     Entry("msg", create_approval_response(Director, task_id,
                                                           decision, DirectorTrace)))
    /\ UNCHANGED <<tools, last_delivered, pending, running, pc, batch,
                   running_tasks, published, tool_calls, handled, faults>>
    /\ UNCHANGED aux

\* anything else that lands on the stream: an entry whose message does not
\* deserialize, an entry without a message field, a message of another type
SendOther ==
    /\ Len(stream) < MaxEntries
    /\ \E e \in { Entry("garbage", BlankMsg), Entry("nomsg", BlankMsg),
                  Entry("msg", create_task_status(PlannerId, ExecutorId, "t1",
                                                  "running", 0, TraceOf("t1"))) } :
         stream' = Append(stream, e)
    /\ UNCHANGED <<tools, last_delivered, pending, running, pc, batch,
                   running_tasks, published, tool_calls, handled, faults>>
    /\ UNCHANGED aux

----------------------------------------------------------------------------
(* RedisA2ATransport *)

Failures(oks) == Cardinality({i \in DOMAIN oks : ~oks[i]})

\* variant: the group is created at the end of the log (id="$")
GroupStartAtEnd == Len(stream)

\* xgroup_create(id="0"): the group's last-delivered id is the beginning of
\* the log
GroupStart == 0

\* xgroup_create returned (or raised ResponseError), then self.running = True;
\* or xgroup_create raised a connection error.  This is the first subscribe:
\* the group is new and starts at GroupStart.
CreateGroup ==
    \/ /\ last_delivered' = GroupStart
       /\ running' = TRUE
       /\ pc' = "loop"
       /\ UNCHANGED faults
    \/ /\ faults < MaxFaults
       /\ faults' = faults + 1
       /\ pc' = "crashed"
       /\ UNCHANGED <<running, last_delivered>>

\* subscribe(), up to the loop: xgroup_create(id="0", mkstream=True), then
\* self.running = True.  Only ResponseError is caught there: a connection
\* error leaves subscribe() with the exception.
Subscribe ==
    /\ pc = "idle"
    /\ CreateGroup
    /\ UNCHANGED <<tools, stream, pending, batch,
                   running_tasks, published, tool_calls, handled>>
    /\ UNCHANGED aux

\* variant: the batch is handed over newest entry first
ReadEntriesNewestFirst ==
    \/ LET n   == Min({BatchCount, Len(stream) - last_delivered})
           ids == [i \in 1..n |-> last_delivered + n + 1 - i]
       IN  /\ last_delivered' = last_delivered + n
           /\ pending' = pending \cup {ids[i] : i \in 1..n}
           /\ batch' = ids
           /\ pc' = IF n = 0 THEN "loop" ELSE "batch"
    \/ /\ pc' = "loop"
       /\ UNCHANGED <<last_delivered, pending, batch>>

\* what xreadgroup does to the group and where the loop goes next: into the
\* batch, or round again (nothing to read, or an exception that is logged)
ReadEntries ==
    \/ LET n   == Min({BatchCount, Len(stream) - last_delivered})
           ids == [i \in 1..n |-> last_delivered + i]
       IN  /\ last_delivered' = last_delivered + n
           /\ pending' = pending \cup {ids[i] : i \in 1..n}
           /\ batch' = ids
           /\ pc' = IF n = 0 THEN "loop" ELSE "batch"
    \/ /\ pc' = "loop"
       /\ UNCHANGED <<last_delivered, pending, batch>>

\* one xreadgroup(group, consumer, {stream: ">"}, count=10, block=1000):
\* the next entries never delivered to the group, which become pending;
\* an exception is logged and the loop goes round
XReadGroup ==
    /\ pc = "loop"
    /\ running
    /\ ReadEntries
    /\ UNCHANGED <<tools, stream, running, running_tasks, published,
                   tool_calls, handled, faults>>
    /\ UNCHANGED aux

\* the body of "for msg_id, msg_data in msg_list" up to the xack: an entry
\* without a message field is passed over, A2AMessage.from_json may raise,
\* handler(message) may raise
Deliver(entry, reg, toolOk, rt) ==
    IF entry.kind = "nomsg"
       THEN [label |-> "empty", out |-> Outcome(<<>>, <<>>, FALSE, rt)]
    ELSE IF entry.kind = "garbage"
       THEN [label |-> "undecodable", out |-> Outcome(<<>>, <<>>, TRUE, rt)]
    ELSE LET out == handle_message(entry.msg, reg, toolOk, rt)
         IN  [label |-> IF out.raised THEN "raised" ELSE "returned", out |-> out]

\* variant: the xack sits in a finally clause
XAckReachedAnyway(label) == label # "empty"

\* xack is the statement after handler(message), inside "if message_json:"
\* and inside the try: it is reached only when the handler returned
XAckReached(label) == label = "returned"

\* processing one entry of the batch: parse, handler(message), xack; any
\* exception is logged and the entry is left as it is.
\* publish() returns False instead of raising when xadd fails.
ProcessEntry ==
    /\ pc = "batch"
    /\ \E toolOk \in BOOLEAN :
         LET id  == Head(batch)
             d   == Deliver(stream[id], tools, toolOk, running_tasks)
             out == d.out
         IN
         \E oks \in [DOMAIN out.pubs -> BOOLEAN], ackOk \in BOOLEAN :
            LET nfail == Failures(oks) + (IF ackOk THEN 0 ELSE 1) IN
            /\ ~XAckReached(d.label) => ackOk
            /\ faults + nfail <= MaxFaults
            /\ faults' = faults + nfail
            /\ batch' = Tail(batch)
            /\ pc' = IF Tail(batch) = <<>> THEN "loop" ELSE "batch"
            /\ running_tasks' = out.rt
            /\ published' = published \o
                  [i \in DOMAIN out.pubs |->
                      [msg |-> out.pubs[i], ok |-> oks[i], by |-> id]]
            /\ tool_calls' = tool_calls \o
                  [i \in DOMAIN out.calls |->
                      [task_id |-> out.calls[i].task_id,
                       tool_id |-> out.calls[i].tool_id,
                       inputs |-> out.calls[i].inputs,
                       raised |-> ~toolOk,
                       by |-> id,
                       after |-> Len(published) + out.calls[i].after]]
            /\ handled' = Append(handled,
                  [id |-> id,
                   outcome |-> d.label,
                   xack |-> IF ~XAckReached(d.label) THEN "none"
                            ELSE IF ackOk THEN "ok" ELSE "failed",
                   parked |-> DOMAIN running_tasks,
                   parked_after |-> DOMAIN out.rt,
                   reg |-> tools])
            /\ pending' = IF XAckReached(d.label) /\ ackOk
                             THEN pending \ {id} ELSE pending
    /\ UNCHANGED <<tools, stream, last_delivered, running>>
    /\ UNCHANGED aux

\* "while self.running" found false
LoopExit ==
    /\ pc = "loop"
    /\ ~running
    /\ pc' = "stopped"
    /\ UNCHANGED <<tools, stream, last_delivered, pending, running, batch,
                   running_tasks, published, tool_calls, handled, faults>>
    /\ UNCHANGED aux

\* stop(), called from another thread while subscribe() is running:
\* self.running = False, whatever it was
Stop ==
    /\ pc \notin {"idle", "stopped", "crashed"}
    /\ running' = FALSE
    /\ stop_called' = TRUE
    /\ UNCHANGED <<tools, stream, last_delivered, pending, pc, batch,
                   running_tasks, published, tool_calls, handled, faults>>
    /\ UNCHANGED call

----------------------------------------------------------------------------

\* no function call under study
NoCall == [fn |-> "none", done |-> FALSE]

\* the executor's process after construction
InitSys ==
    /\ tools = Manifests
    /\ stream = <<>>
    /\ last_delivered = 0
    /\ pending = {}
    /\ running = FALSE
    /\ pc = "idle"
    /\ batch = <<>>
    /\ running_tasks = [t \in {} |-> 0]
    /\ published = <<>>
    /\ tool_calls = <<>>
    /\ handled = <<>>
    /\ faults = 0

Init ==
    /\ InitSys
    /\ stop_called = FALSE
    /\ call = NoCall

\* the executor agent as it is deployed: start() is called and nothing
\* calls stop()
Next ==
    \/ SendTaskRequest
    \/ SendApprovalResponse
    \/ SendOther
    \/ Subscribe
    \/ XReadGroup
    \/ ProcessEntry

Spec == Init /\ [][Next]_vars

----------------------------------------------------------------------------
(* Reading the history *)

TaskOf(e) == e.msg.payload.task_id
PubsBy(id) == SelectSeq(published, LAMBDA p : p.by = id)
CallsBy(id) == SelectSeq(tool_calls, LAMBDA c : c.by = id)
IsResult(m) == m.type = "TASK_RESULT"
IsStatus(m) == m.type = "TASK_STATUS"
AboutTask(m, t) == m.payload.task_id = t

\* a TASK_REQUEST with a task_id whose tool is registered and whose inputs
\* pass validate_inputs
ValidRequest(e) ==
    /\ IsRequest(e)
    /\ ValidTaskId(TaskOf(e))
    /\ HasTool(tools, e.msg.payload.tool_id)
    /\ validate_inputs(tools, e.msg.payload.tool_id, e.msg.payload.inputs).valid

\* the request's tool is registered with approval_required = true
IsApprovalTaskRequest(e) ==
    /\ IsRequest(e)
    /\ ValidTaskId(TaskOf(e))
    /\ HasTool(tools, e.msg.payload.tool_id)
    /\ get_tool(tools, e.msg.payload.tool_id).approval_required

\* t is the task of a request for an approval-required tool delivered by entry id
ApprovalTask(t, id) ==
    \E j \in 1..id : IsApprovalTaskRequest(stream[j]) /\ TaskOf(stream[j]) = t

\* an APPROVAL_RESPONSE{decision=true} for t has been received by entry id
Approved(t, id) ==
    \E j \in 1..id : /\ IsResponse(stream[j])
                     /\ TaskOf(stream[j]) = t
                     /\ stream[j].msg.payload.decision

\* an APPROVAL_RESPONSE for t arrived in entries lo+1 .. hi
ResponseBetween(t, lo, hi) ==
    \E j \in (lo + 1)..hi : IsResponse(stream[j]) /\ TaskOf(stream[j]) = t

\* the request entry that first carried task t
RequestOf(t) ==
    stream[Min({j \in DOMAIN stream : IsRequest(stream[j]) /\ TaskOf(stream[j]) = t})]

----------------------------------------------------------------------------
(* C1 *)

\* C1 (as stated): for a request whose tool has approval_required = true, no
\* TASK_RESULT for its task_id is published before an APPROVAL_RESPONSE with
\* decision = true for that task_id has been received.
C1_NoResultBeforeApproval ==
    \A k \in DOMAIN published :
        LET p == published[k] IN
        (IsResult(p.msg) /\ ApprovalTask(p.msg.payload.task_id, p.by))
            => Approved(p.msg.payload.task_id, p.by)

\* C1 (amended): for a request whose tool has approval_required = true, no
\* tool is invoked and no TASK_RESULT reporting an execution is published for
\* its task_id before an APPROVAL_RESPONSE with decision = true for it has been
\* received; the only TASK_RESULTs published without that approval are
\* {failed, "Invalid inputs: ..."} while handling the request and {rejected}
\* while handling an APPROVAL_RESPONSE with decision = false for it.
C1_NoExecutionBeforeApproval ==
    /\ \A k \in DOMAIN published :
          LET p == published[k]
              t == p.msg.payload.task_id
          IN  (IsResult(p.msg) /\ ApprovalTask(t, p.by)) =>
                 \/ Approved(t, p.by)
                 \/ /\ p.msg.payload.status = "failed"
                    /\ IsRequest(stream[p.by])
                    /\ Head(p.msg.payload.error) = "Invalid inputs: "
                 \/ /\ p.msg.payload.status = "rejected"
                    /\ IsResponse(stream[p.by])
                    /\ TaskOf(stream[p.by]) = t
                    /\ ~stream[p.by].msg.payload.decision
    /\ \A k \in DOMAIN tool_calls :
          LET c == tool_calls[k] IN
          ApprovalTask(c.task_id, c.by) => Approved(c.task_id, c.by)

\* an approval-required task was approved, ran and reported its result
C1_Witness ==
    \E k \in DOMAIN published :
        /\ IsResult(published[k].msg)
        /\ published[k].msg.payload.status = "completed"
        /\ ApprovalTask(published[k].msg.payload.task_id, published[k].by)

----------------------------------------------------------------------------
(* C2 *)

\* C2: handling a valid TASK_REQUEST for an approval-required tool parks the
\* task under its task_id and calls publish exactly once, with an
\* APPROVAL_REQUEST carrying that task_id addressed to "director"; from then
\* until an APPROVAL_RESPONSE for that task_id is handled the task stays
\* parked, no tool is invoked for it and no TASK_STATUS or TASK_RESULT for it
\* is published.
C2_ParkedUntilResponse ==
    \A i \in DOMAIN handled :
        LET h == handled[i]
            e == stream[h.id]
            t == TaskOf(e)
            pubs == PubsBy(h.id)
        IN  (ValidRequest(e) /\ IsApprovalTaskRequest(e)) =>
              /\ t \in h.parked_after
              /\ Len(pubs) = 1
              /\ pubs[1].msg.type = "APPROVAL_REQUEST"
              /\ pubs[1].msg.to_agent = Director
              /\ AboutTask(pubs[1].msg, t)
              /\ CallsBy(h.id) = <<>>
              /\ \A k \in DOMAIN published :
                    LET p == published[k] IN
                    (p.by > h.id /\ AboutTask(p.msg, t)
                       /\ (IsStatus(p.msg) \/ IsResult(p.msg)))
                        => ResponseBetween(t, h.id, p.by)
              /\ \A k \in DOMAIN tool_calls :
                    LET c == tool_calls[k] IN
                    (c.by > h.id /\ c.task_id = t)
                        => ResponseBetween(t, h.id, c.by)
              /\ \/ t \in DOMAIN running_tasks
                 \/ \E j \in DOMAIN handled :
                       /\ handled[j].id > h.id
                       /\ IsResponse(stream[handled[j].id])
                       /\ TaskOf(stream[handled[j].id]) = t

\* a task is parked, its approval request is out, and the executor has
\* handled a later entry while the task was still waiting
C2_Witness ==
    \E i, j \in DOMAIN handled :
        /\ ValidRequest(stream[handled[i].id])
        /\ IsApprovalTaskRequest(stream[handled[i].id])
        /\ handled[j].id > handled[i].id
        /\ TaskOf(stream[handled[i].id]) \in DOMAIN running_tasks
        /\ \E k \in DOMAIN published :
              /\ published[k].msg.type = "APPROVAL_REQUEST"
              /\ published[k].ok

----------------------------------------------------------------------------
(* C3 *)

----------------------------------------------------------------------------
(* C4 *)

\* the requests for t that parked it, and the tool runs released by responses
Parkings(t) ==
    {i \in DOMAIN handled :
        /\ IsRequest(stream[handled[i].id])
        /\ TaskOf(stream[handled[i].id]) = t
        /\ t \in handled[i].parked_after}
ReleasedRuns(t) ==
    {k \in DOMAIN tool_calls :
        tool_calls[k].task_id = t /\ IsResponse(stream[tool_calls[k].by])}

\* C4: handling an APPROVAL_RESPONSE whose task_id is not in the parked table
\* publishes nothing, invokes no tool, leaves the table as it was and returns
\* normally, so that the xack is reached; a task parked once is never run
\* twice by repeated approvals.
C4_UnknownApprovalIsNoOp ==
    /\ \A i \in DOMAIN handled :
          LET h == handled[i]
              e == stream[h.id]
          IN  (IsResponse(e) /\ TaskOf(e) \notin h.parked) =>
                /\ h.outcome = "returned"
                /\ h.xack # "none"
                /\ PubsBy(h.id) = <<>>
                /\ CallsBy(h.id) = <<>>
                /\ h.parked_after = h.parked
    /\ \A t \in TaskIds : Cardinality(ReleasedRuns(t)) <= Cardinality(Parkings(t))

\* a task was parked, approved and run, and a second approval for it was
\* handled afterwards
C4_Witness ==
    \E i, j \in DOMAIN handled :
        /\ handled[i].id < handled[j].id
        /\ IsResponse(stream[handled[i].id])
        /\ IsResponse(stream[handled[j].id])
        /\ stream[handled[j].id].msg.payload.decision
        /\ TaskOf(stream[handled[i].id]) = TaskOf(stream[handled[j].id])
        /\ TaskOf(stream[handled[i].id]) \in handled[i].parked
        /\ TaskOf(stream[handled[j].id]) \notin handled[j].parked
        /\ CallsBy(handled[i].id) # <<>>

----------------------------------------------------------------------------
(* C5 *)

\* C5: handling a TASK_REQUEST whose tool_id is not in the registry calls
\* publish exactly once, with TASK_RESULT{failed} whose error starts "Tool not
\* found" addressed to the requester; no APPROVAL_REQUEST and no TASK_STATUS
\* for that task_id is ever published.
C5_UnknownToolFails ==
    \A i \in DOMAIN handled :
        LET h == handled[i]
            e == stream[h.id]
            t == TaskOf(e)
            pubs == PubsBy(h.id)
        IN  (/\ IsRequest(e)
             /\ ValidTaskId(t)
             /\ ~HasTool(tools, e.msg.payload.tool_id)) =>
              /\ h.outcome = "returned"
              /\ Len(pubs) = 1
              /\ IsResult(pubs[1].msg)
              /\ AboutTask(pubs[1].msg, t)
              /\ pubs[1].msg.payload.status = "failed"
              /\ Head(pubs[1].msg.payload.error) = "Tool not found: "
              /\ pubs[1].msg.to_agent = e.msg.from_agent
              /\ \A k \in DOMAIN published :
                    AboutTask(published[k].msg, t) =>
                        published[k].msg.type \notin {"APPROVAL_REQUEST", "TASK_STATUS"}

\* a request for an unregistered tool was answered, and an approval for its
\* task_id was handled afterwards
C5_Witness ==
    \E i, j \in DOMAIN handled :
        /\ IsRequest(stream[handled[i].id])
        /\ TaskOf(stream[handled[i].id]) \in TaskIds
        /\ ~HasTool(tools, stream[handled[i].id].msg.payload.tool_id)
        /\ handled[j].id > handled[i].id
        /\ IsResponse(stream[handled[j].id])
        /\ TaskOf(stream[handled[j].id]) = TaskOf(stream[handled[i].id])
        /\ \E k \in DOMAIN published : published[k].by = handled[i].id

----------------------------------------------------------------------------
(* C6 *)

\* C6: a TASK_REQUEST whose inputs pass validate_inputs but fail
\* check_constraints is rejected locally: its handling publishes exactly one
\* message, a TASK_RESULT{failed}, requests no approval, publishes no
\* TASK_STATUS and invokes no tool.
C6_ConstraintViolationRejected ==
    \A i \in DOMAIN handled :
        LET h == handled[i]
            e == stream[h.id]
            pubs == PubsBy(h.id)
        IN  (/\ ValidRequest(e)
             /\ ~check_constraints(tools, e.msg.payload.tool_id,
                                   e.msg.payload.inputs).valid) =>
              /\ Len(pubs) = 1
              /\ IsResult(pubs[1].msg)
              /\ pubs[1].msg.payload.status = "failed"
              /\ CallsBy(h.id) = <<>>

----------------------------------------------------------------------------
(* C7 *)

\* C7: an entry is acknowledged only after handler(message) returned without
\* raising for it: the xack is attempted only for entries whose handler
\* returned, and every delivered entry that is no longer pending was handled
\* by a handler run that returned.
C7_AckOnlyAfterReturn ==
    /\ \A i \in DOMAIN handled :
          handled[i].xack # "none" => handled[i].outcome = "returned"
    /\ \A id \in 1..last_delivered :
          id \notin pending =>
             \E i \in DOMAIN handled : /\ handled[i].id = id
                                       /\ handled[i].outcome = "returned"
                                       /\ handled[i].xack = "ok"

\* one entry's handler raised, one entry did not deserialize, one entry was
\* acknowledged
C7_Witness ==
    /\ \E i \in DOMAIN handled : handled[i].outcome = "raised"
    /\ \E i \in DOMAIN handled : handled[i].outcome = "undecodable"
    /\ \E i \in DOMAIN handled : handled[i].xack = "ok"

----------------------------------------------------------------------------
(* C8 *)

Deliveries(id) == Cardinality({i \in DOMAIN handled : handled[i].id = id})

\* the stream is full, every entry has been read and processed: from here
\* on every xreadgroup returns nothing
Drained ==
    /\ pc = "loop"
    /\ Len(stream) = MaxEntries
    /\ last_delivered = Len(stream)

\* C8: an entry left unacknowledged because its handler raised is delivered
\* again while the consumer keeps running its subscribe loop: once the loop
\* has drained the stream, every such entry has been delivered at least twice.
C8_RaisedEntryRedelivered ==
    Drained =>
        \A i \in DOMAIN handled :
            handled[i].outcome = "raised" => Deliveries(handled[i].id) >= 2

----------------------------------------------------------------------------
(* C9 *)

BatchIds == {batch[i] : i \in DOMAIN batch}

\* C9: when the tool collaborator raises, the handling publishes exactly one
\* TASK_RESULT, as its last message, with status failed and the exception
\* message, addressed to the requester; the handler returns without raising
\* and the xack is reached; the loop stays alive and every delivered entry is
\* processed or still waiting in the batch.
C9_ToolFailureIsReported ==
    /\ \A k \in DOMAIN tool_calls :
          LET c == tool_calls[k]
              pubs == PubsBy(c.by)
              last == pubs[Len(pubs)].msg
          IN  c.raised =>
                /\ Len(pubs) >= 1
                /\ IsResult(last)
                /\ AboutTask(last, c.task_id)
                /\ last.payload.status = "failed"
                /\ last.payload.error = <<"tool raised">>
                /\ last.to_agent = RequestOf(c.task_id).msg.from_agent
                /\ Cardinality({n \in DOMAIN pubs : IsResult(pubs[n].msg)}) = 1
                /\ \E i \in DOMAIN handled :
                      /\ handled[i].id = c.by
                      /\ handled[i].outcome = "returned"
                      /\ handled[i].xack # "none"
    /\ handled # <<>> => pc \in {"loop", "batch"}
    /\ \A id \in 1..last_delivered :
          id \in BatchIds \/ \E i \in DOMAIN handled : handled[i].id = id

\* a tool raised while running a task and the loop handled a later entry
C9_Witness ==
    \E k \in DOMAIN tool_calls, i \in DOMAIN handled :
        /\ tool_calls[k].raised
        /\ handled[i].id > tool_calls[k].by
        /\ handled[i].outcome = "returned"

----------------------------------------------------------------------------
(* C10 *)

\* the messages in the log partition agents:<agent>, as far as the executor
\* wrote them
Partition(agent) ==
    SelectSeq(published, LAMBDA p : p.ok /\ p.msg.to_agent = agent)

\* C10: a terminal outcome is never dropped: when an entry whose handling
\* emitted a TASK_RESULT has been acknowledged, a TASK_RESULT for that
\* task_id is in the requester's log partition.
C10_ResultInLogWhenAcked ==
    \A i \in DOMAIN handled :
        handled[i].xack = "ok" =>
            \A k \in DOMAIN published :
                LET p == published[k]
                    log == Partition(p.msg.to_agent)
                IN  (p.by = handled[i].id /\ IsResult(p.msg)) =>
                       \E n \in DOMAIN log :
                          /\ IsResult(log[n].msg)
                          /\ AboutTask(log[n].msg, p.msg.payload.task_id)

----------------------------------------------------------------------------
(* Planner agent (planner_agent.py): execute_plan *)

\* at most this many steps in a plan handed to execute_plan
MaxSteps == 2

\* str(uuid.uuid4()) for the k-th step of one execute_plan call: fresh values
Uuid(k) == "uuid-" \o ToString(k)

\* a plan step as execute_plan reads it: step['tool_id'], step['inputs']
Step(step_id, tool_id, inputs) ==
    [step_id |-> step_id, tool_id |-> tool_id, inputs |-> inputs]

\* the steps plans are made of
PlanSteps ==
    { Step("s1", "kaggle.dataset.download", <<Pair("dataset_ref", StrVal)>>),
      Step("s2", "analyzer.eda", <<Pair("dataset_path", StrVal)>>),
      Step("s3", "executor.run_code", <<Pair("script_path", StrVal)>>) }

\* the trace_id arguments execute_plan is called with: a caller's trace id,
\* and the empty string
TraceIds == {"trace-1", ""}

SeqsUpTo(S, n) == UNION { [1..k -> S] : k \in 0..n }

\* execute_plan(plan, trace_id): per step a fresh task_id, a TASK_REQUEST to
\* executor.agent.v1, transport.publish(message) whose result is dropped
\* (oks[k]: the k-th publish returned True), task_ids.append(task_id)
execute_plan(plan, trace_id, oks) ==
    [task_ids |-> [k \in DOMAIN plan |-> Uuid(k)],
     sent     |-> [k \in DOMAIN plan |->
                     [msg |-> create_task_request(PlannerId, ExecutorId, Uuid(k),
                                                  plan[k].tool_id, plan[k].inputs,
                                                  trace_id),
                      ok  |-> oks[k]]]]

----------------------------------------------------------------------------
(* Single calls of the registry's, the envelope's and the planner's        *)
(* functions: the arguments are drawn at the start, one step applies the   *)
(* function and records what it returned.                                  *)

Call(fn, args) == [fn |-> fn, args |-> args, done |-> FALSE, result |-> None]
Return(c, result) == [fn |-> c.fn, args |-> c.args, done |-> TRUE, result |-> result]

ExecutePlanCalls ==
    { Call("execute_plan", [plan |-> p, trace_id |-> t]) :
        p \in SeqsUpTo(PlanSteps, MaxSteps), t \in TraceIds }

ApplyExecutePlan ==
    /\ call.fn = "execute_plan" /\ ~call.done
    /\ \E oks \in [DOMAIN call.args.plan -> BOOLEAN] :
         call' = Return(call, execute_plan(call.args.plan, call.args.trace_id, oks))
    /\ UNCHANGED <<sys, stop_called>>

\* the call has been made and has returned
Returned(fn) == call.fn = fn /\ call.done

----------------------------------------------------------------------------
(* C11 *)

\* C11 (second half): every TASK_REQUEST emitted by execute_plan carries the
\* trace_id that was passed to execute_plan.
C11_PlanTracePropagated ==
    Returned("execute_plan") =>
        \A k \in DOMAIN call.result.sent :
            call.result.sent[k].msg.trace_id = call.args.trace_id

----------------------------------------------------------------------------
(* C12 *)

ToolRunsOf(t) == {i \in DOMAIN tool_calls : tool_calls[i].task_id = t}
ResultsOf(t) ==
    {i \in DOMAIN published : IsResult(published[i].msg) /\ AboutTask(published[i].msg, t)}

\* C12: however often the TASK_REQUEST of a task is delivered, the tool is
\* invoked at most once for its task_id and at most one TASK_RESULT for its
\* task_id is published.
C12_RequestHandledOnce ==
    \A t \in TaskIds :
        /\ Cardinality(ToolRunsOf(t)) <= 1
        /\ Cardinality(ResultsOf(t)) <= 1

----------------------------------------------------------------------------
(* C13: the registry changes while a task is parked *)

\* a manifest of executor.run_code edited on disk: another required input
EditedRunCode ==
    [tool_id |-> "executor.run_code",
     inputs |-> <<Param("code", "string", TRUE)>>,
     constraints |-> NoConstraints,
     approval_required |-> TRUE]

\* what manifests_dir.glob("*.json") may hold when load_manifests runs
\* again: the files as they were, executor.run_code.json edited, every file
\* but analyzer.eda.json removed
ManifestDirs ==
    { Manifests,
      [id \in {"executor.run_code"} |-> EditedRunCode],
      [id \in {"analyzer.eda"} |-> Manifests[id]] }

\* ToolRegistry.load_manifests: self.tools[tool_id] = manifest for every file
\* of the directory; self.tools is not cleared first
load_manifests(reg, dir) ==
    [id \in (DOMAIN reg) \cup (DOMAIN dir) |->
        IF id \in DOMAIN dir THEN dir[id] ELSE reg[id]]

\* tool_registry.load_manifests() is run again
LoadManifests ==
    /\ \E dir \in ManifestDirs : tools' = load_manifests(tools, dir)
    /\ UNCHANGED <<stream, last_delivered, pending, running, pc, batch,
                   running_tasks, published, tool_calls, handled, faults>>
    /\ UNCHANGED aux

\* a planner publishes the TASK_REQUEST of task t1 for executor.run_code
SendRunCode ==
    /\ Len(stream) < MaxEntries
    /\ \E inputs \in { <<Pair("script_path", StrVal)>>, <<Pair("code", StrVal)>> } :
         LET m == create_task_request(PlannerId, ExecutorId, "t1",
                                      "executor.run_code", inputs, TraceOf("t1"))
         IN  /\ FreshOrSame(m)
             /\ stream' = Append(stream, Entry("msg", m))
    /\ UNCHANGED <<tools, last_delivered, pending, running, pc, batch,
                   running_tasks, published, tool_calls, handled, faults>>
    /\ UNCHANGED aux

\* the director publishes its decision on task t1
SendDecision ==
    /\ Len(stream) < MaxEntries
    /\ \E decision \in BOOLEAN :
         stream' = Append(stream,
                     Entry("msg", create_approval_response(Director, "t1",
                                                           decision, DirectorTrace)))
    /\ UNCHANGED <<tools, last_delivered, pending, running, pc, batch,
                   running_tasks, published, tool_calls, handled, faults>>
    /\ UNCHANGED aux

NextReload ==
    \/ SendRunCode
    \/ SendDecision
    \/ LoadManifests
    \/ Subscribe
    \/ XReadGroup
    \/ ProcessEntry

\* the executor with approval traffic for one task and a registry that is
\* reloaded at any moment
SpecReload == Init /\ [][NextReload]_vars

\* handled[i] is an APPROVAL_RESPONSE{decision=true} for a task that was
\* parked when it arrived
ApprovedParked(i) ==
    LET e == stream[handled[i].id] IN
    /\ IsResponse(e)
    /\ e.msg.payload.decision
    /\ TaskOf(e) \in TaskIds
    /\ TaskOf(e) \in handled[i].parked

\* C13: handling APPROVAL_RESPONSE{decision=true} for a parked task runs the
\* tool of the parked request with the parked inputs, whatever the registry
\* holds by then (no lookup, no validation: the only failure reported is the
\* tool's own), and the task is not parked afterwards.
C13_ApprovedRunsParked ==
    \A i \in DOMAIN handled :
        ApprovedParked(i) =>
            LET id    == handled[i].id
                t     == TaskOf(stream[id])
                req   == RequestOf(t).msg
                calls == CallsBy(id)
                pubs  == PubsBy(id)
                last  == pubs[Len(pubs)].msg
            IN  /\ t \notin handled[i].parked_after
                /\ Len(calls) = 1
                /\ calls[1].task_id = t
                /\ calls[1].tool_id = req.payload.tool_id
                /\ calls[1].inputs = req.payload.inputs
                /\ Len(pubs) >= 2
                /\ pubs[1].msg = create_task_status(ExecutorId, req.from_agent, t,
                                                    "running", 0, req.trace_id)
                /\ IsResult(last) /\ AboutTask(last, t)
                /\ last.payload.status = IF calls[1].raised THEN "failed" ELSE "completed"

\* a task was parked under one manifest, the manifest was replaced by one
\* that does not accept the parked inputs, and the approval then arrived
C13_Witness ==
    \E i, j \in DOMAIN handled :
        /\ i < j
        /\ ApprovedParked(j)
        /\ IsRequest(stream[handled[i].id])
        /\ TaskOf(stream[handled[i].id]) = TaskOf(stream[handled[j].id])
        /\ TaskOf(stream[handled[j].id]) \in handled[i].parked_after
        /\ handled[i].reg # handled[j].reg
        /\ ~validate_inputs(handled[j].reg,
                            stream[handled[i].id].msg.payload.tool_id,
                            stream[handled[i].id].msg.payload.inputs).valid
        /\ Len(CallsBy(handled[j].id)) = 1

----------------------------------------------------------------------------
(* C14: subscribe() statement by statement, with stop() on another thread *)

\* subscribe() is called: it is at xgroup_create, self.running not yet set
StartSubscribe ==
    /\ pc = "idle"
    /\ pc' = "setup"
    /\ UNCHANGED <<tools, stream, last_delivered, pending, running, batch,
                   running_tasks, published, tool_calls, handled, faults>>
    /\ UNCHANGED aux

\* xgroup_create is over: self.running = True
FinishSetup ==
    /\ pc = "setup"
    /\ CreateGroup
    /\ UNCHANGED <<tools, stream, pending, batch,
                   running_tasks, published, tool_calls, handled>>
    /\ UNCHANGED aux

\* "while self.running" found true
EnterLoop ==
    /\ pc = "loop"
    /\ running
    /\ pc' = "read"
    /\ UNCHANGED <<tools, stream, last_delivered, pending, running, batch,
                   running_tasks, published, tool_calls, handled, faults>>
    /\ UNCHANGED aux

\* the xreadgroup call of this round of the loop
ReadBatch ==
    /\ pc = "read"
    /\ ReadEntries
    /\ UNCHANGED <<tools, stream, running, running_tasks, published,
                   tool_calls, handled, faults>>
    /\ UNCHANGED aux

\* the steps of the thread that runs subscribe()
SubscribeThread ==
    \/ FinishSetup
    \/ EnterLoop
    \/ ReadBatch
    \/ ProcessEntry
    \/ LoopExit

NextStop ==
    \/ SendOther
    \/ StartSubscribe
    \/ Stop
    \/ SubscribeThread

\* a transport whose subscribe() runs on one thread while stop() is called
\* from another; the subscribing thread keeps being scheduled
SpecStop == Init /\ [][NextStop]_vars /\ WF_vars(SubscribeThread)

\* C14: once stop() has been called, the subscribe loop eventually exits.
C14_StopEndsLoop == stop_called ~> (pc \in {"stopped", "crashed"})

----------------------------------------------------------------------------
(* C15 *)

\* C15: an entry that does not deserialize does not stay pending for ever:
\* once the loop has drained the stream (from there on nothing touches the
\* pending set), every such entry has left the group's pending set.
C15_UndecodableLeavesPending ==
    Drained =>
        \A i \in DOMAIN handled :
            handled[i].outcome = "undecodable" => handled[i].id \notin pending

----------------------------------------------------------------------------
(* Calls of ToolRegistry.validate_inputs *)

\* at most this many keys in an input map handed to validate_inputs
MaxInputs == 2

\* a manifest that declares one input of each checked type
TypedTool ==
    [tool_id |-> "typed.tool",
     inputs |-> <<Param("name", "string", TRUE),
                  Param("count", "integer", FALSE),
                  Param("flag", "boolean", FALSE)>>,
     constraints |-> NoConstraints,
     approval_required |-> FALSE]

\* the registry the calls run against: the manifests and the typed one
CallRegistry == load_manifests(Manifests, [id \in {"typed.tool"} |-> TypedTool])

InputNames == {"name", "count", "flag", "dataset_path", "extra"}
InputValues == {StrVal, IntVal(1), BoolVal(TRUE), FloatVal}

\* Python dicts with at most MaxInputs keys: pairwise distinct names
InputMaps ==
    { m \in SeqsUpTo({Pair(n, v) : n \in InputNames, v \in InputValues}, MaxInputs) :
        \A i, j \in DOMAIN m : m[i].name = m[j].name => i = j }

ValidateCalls ==
    { Call("validate_inputs", [tool_id |-> id, inputs |-> m]) :
        id \in (DOMAIN CallRegistry) \cup {"nonexistent.tool"}, m \in InputMaps }

ApplyValidate ==
    /\ call.fn = "validate_inputs" /\ ~call.done
    /\ call' = Return(call, validate_inputs(CallRegistry, call.args.tool_id,
                                            call.args.inputs))
    /\ UNCHANGED <<sys, stop_called>>

\* the names the manifest of tool_id declares (none when there is no such tool)
Declared(tool_id) ==
    IF HasTool(CallRegistry, tool_id)
       THEN ParamNames(get_tool(CallRegistry, tool_id)) ELSE {}

----------------------------------------------------------------------------
(* C16 *)

\* C16: validate_inputs fails for every tool and every input map holding at
\* least one key the tool's manifest does not declare, whatever else it holds.
C16_UndeclaredKeyRejected ==
    Returned("validate_inputs") =>
        ( (Keys(call.args.inputs) \ Declared(call.args.tool_id) # {})
            => ~call.result.valid )

\* an input map that is complete and well typed but for one undeclared key
\* was refused for that key
C16_Witness ==
    /\ Returned("validate_inputs")
    /\ call.args.tool_id = "typed.tool"
    /\ Keys(call.args.inputs) = {"name", "extra"}
    /\ Lookup(call.args.inputs, "name") = StrVal
    /\ ~call.result.valid
    /\ call.result.error = <<"Unknown parameter: ", "extra">>

----------------------------------------------------------------------------
(* C17 *)

\* the manifest type name of a value's runtime type
TypeName(val) ==
    CASE val.t = "str"  -> "string"
      [] val.t = "int"  -> "integer"
      [] val.t = "bool" -> "boolean"
      [] OTHER          -> "number"

\* some supplied value is of another type than the one declared for its key
TypeMismatch(tool_id, inputs) ==
    /\ HasTool(CallRegistry, tool_id)
    /\ \E i \in DOMAIN inputs :
          /\ inputs[i].name \in Declared(tool_id)
          /\ ParamType(get_tool(CallRegistry, tool_id), inputs[i].name)
                \in {"string", "integer", "boolean"}
          /\ ParamType(get_tool(CallRegistry, tool_id), inputs[i].name)
                # TypeName(inputs[i].value)

\* C17: validate_inputs fails whenever a supplied value's runtime type is not
\* the declared type (string, integer, boolean) of its field; a boolean for
\* an integer field and an integer for a boolean field are both refused.
C17_TypeMismatchRejected ==
    Returned("validate_inputs") =>
        (TypeMismatch(call.args.tool_id, call.args.inputs) => ~call.result.valid)

----------------------------------------------------------------------------
(* Calls of A2AMessage.from_json.  The wire text is summarised by what the *)
(* validation looks at: the keys of the envelope object, its type tag and  *)
(* the keys of its payload object.                                         *)

\* class MessageType
MessageTypes ==
    {"TASK_REQUEST", "TASK_STATUS", "TASK_RESULT",
     "APPROVAL_REQUEST", "APPROVAL_RESPONSE", "ERROR"}

\* the fields of A2AMessage without a default
EnvelopeKeys ==
    {"message_id", "type", "from_agent", "to_agent", "timestamp", "trace_id", "payload"}

\* the fields without a default of the payload model of each type
\* (TaskRequest, TaskStatus, TaskResult, ApprovalRequest, ApprovalResponse)
RequiredPayload(type) ==
    CASE type = "TASK_REQUEST"      -> {"task_id", "tool_id", "inputs"}
      [] type = "TASK_STATUS"       -> {"task_id", "status"}
      [] type = "TASK_RESULT"       -> {"task_id", "status"}
      [] type = "APPROVAL_REQUEST"  -> {"task_id", "reason"}
      [] type = "APPROVAL_RESPONSE" -> {"task_id", "approver_id", "decision"}
      [] OTHER                      -> {}

PayloadKeys ==
    {"task_id", "tool_id", "inputs", "status", "reason", "approver_id", "decision"}

\* Python values beside StrVal, IntVal, BoolVal, FloatVal: None and a dict
NoneVal == [t |-> "none", v |-> 0]
DictVal == [t |-> "dict", v |-> 0]

\* a JSON value as written on the wire; a number keeps whether it is
\* written with a fraction (1.0) or without (1)
Json(j, v, frac) == [j |-> j, v |-> v, frac |-> frac]
JStr(s) == [j |-> "string", s |-> s]

\* the JSON text pydantic writes for a Python value held in a Dict[str, Any]
Dumps(val) ==
    CASE val.t = "str"   -> Json("string", val.v, FALSE)
      [] val.t = "int"   -> Json("number", val.v, FALSE)
      [] val.t = "float" -> Json("number", val.v, TRUE)
      [] val.t = "bool"  -> Json(IF val.v = 1 THEN "true" ELSE "false", 0, FALSE)
      [] val.t = "dict"  -> Json("object", val.v, FALSE)
      [] OTHER           -> Json("null", 0, FALSE)

\* variant: every JSON number is read as an int
LoadsIntegral(js) ==
    CASE js.j = "string" -> [t |-> "str", v |-> js.v]
      [] js.j = "number" -> [t |-> "int", v |-> js.v]
      [] js.j = "true"   -> [t |-> "bool", v |-> 1]
      [] js.j = "false"  -> [t |-> "bool", v |-> 0]
      [] js.j = "object" -> [t |-> "dict", v |-> js.v]
      [] OTHER           -> [t |-> "none", v |-> 0]

\* the Python value the JSON parser builds for a value of a Dict[str, Any]
Loads(js) ==
    CASE js.j = "string" -> [t |-> "str", v |-> js.v]
      [] js.j = "number" -> [t |-> IF js.frac THEN "float" ELSE "int", v |-> js.v]
      [] js.j = "true"   -> [t |-> "bool", v |-> 1]
      [] js.j = "false"  -> [t |-> "bool", v |-> 0]
      [] js.j = "object" -> [t |-> "dict", v |-> js.v]
      [] OTHER           -> [t |-> "none", v |-> 0]

\* A2AMessage.to_json (model_dump_json): every field of the envelope, the
\* type as its string value, the payload dict member by member
to_json(m) ==
    [keys |-> EnvelopeKeys \cup {"signature"},
     type |-> m.type,
     from_agent |-> JStr(m.from_agent),
     to_agent |-> JStr(m.to_agent),
     trace_id |-> JStr(m.trace_id),
     payload |-> [k \in DOMAIN m.payload |-> Dumps(m.payload[k])]]

\* A2AMessage.from_json (model_validate_json against A2AMessage): every field
\* without a default is there, type is a MessageType value, the str fields
\* are JSON strings, payload is Dict[str, Any] (any keys, any values)
from_json(wire) ==
    IF /\ EnvelopeKeys \subseteq wire.keys
       /\ wire.type \in MessageTypes
       /\ \A f \in {wire.from_agent, wire.to_agent, wire.trace_id} : f.j = "string"
       THEN [ok |-> TRUE,
             msg |-> [type |-> wire.type,
                      from_agent |-> wire.from_agent.s,
                      to_agent |-> wire.to_agent.s,
                      trace_id |-> wire.trace_id.s,
                      payload |-> [k \in DOMAIN wire.payload |-> Loads(wire.payload[k])]]]
       ELSE [ok |-> FALSE, msg |-> None]

FromJsonCalls ==
    { Call("from_json",
           [keys |-> ks, type |-> ty,
            from_agent |-> JStr(PlannerId), to_agent |-> JStr(ExecutorId),
            trace_id |-> JStr("trace-1"),
            payload |-> [k \in pl |-> Dumps(StrVal)]]) :
        ks \in {EnvelopeKeys, EnvelopeKeys \ {"trace_id"}},
        ty \in MessageTypes \cup {"HEARTBEAT"},
        pl \in SUBSET PayloadKeys }

ApplyFromJson ==
    /\ call.fn = "from_json" /\ ~call.done
    /\ call' = Return(call, from_json(call.args))
    /\ UNCHANGED <<sys, stop_called>>

----------------------------------------------------------------------------
(* C18 *)

\* C18: from_json fails, and returns no message, whenever the type tag is
\* not one of the six message types or the payload lacks a field its
\* type's payload variant requires.
C18_MalformedRejected ==
    Returned("from_json") =>
        ( ( \/ call.args.type \notin MessageTypes
            \/ ~(RequiredPayload(call.args.type) \subseteq DOMAIN call.args.payload) )
          => ~call.result.ok )

----------------------------------------------------------------------------
(* C19 *)

\* the entries execute_plan's publishes added to agents:executor.agent.v1
PlanLog(sent) == SelectSeq(sent, LAMBDA p : p.ok)

\* C19: execute_plan returns one task_id per step, in step order and
\* pairwise distinct, and for each of them a TASK_REQUEST with that task_id
\* and the step's tool_id and inputs is in the executor's log partition.
C19_ReturnedTasksEmitted ==
    Returned("execute_plan") =>
        LET plan == call.args.plan
            ids  == call.result.task_ids
            log  == PlanLog(call.result.sent)
        IN  /\ Len(ids) = Len(plan)
            /\ \A j, k \in DOMAIN ids : ids[j] = ids[k] => j = k
            /\ \A k \in DOMAIN ids :
                 \E i \in DOMAIN log :
                    /\ log[i].msg.type = "TASK_REQUEST"
                    /\ log[i].msg.to_agent = ExecutorId
                    /\ log[i].msg.payload.task_id = ids[k]
                    /\ log[i].msg.payload.tool_id = plan[k].tool_id
                    /\ log[i].msg.payload.inputs = plan[k].inputs

----------------------------------------------------------------------------
(* Calls of PlannerAgent.create_plan.  The oracle's answer is a text of    *)
(* tokens: "{" and "}", "p" for a well-formed run of members inside an     *)
(* object, "w" for any other words.                                        *)

\* at most this many tokens in an answer of the oracle
MaxText == 4

Tokens == {"{", "}", "p", "w"}
Texts == SeqsUpTo(Tokens, MaxText)

Positions(text, tok) == {i \in DOMAIN text : text[i] = tok}
Depth(text, k) ==
    Cardinality({i \in 1..k : text[i] = "{"}) - Cardinality({i \in 1..k : text[i] = "}"})

\* json.loads(span) returns an object: the span opens with a brace that is
\* closed by its last token, every brace in between is matched, no stray words
IsJsonObject(span) ==
    /\ Len(span) >= 2
    /\ span[1] = "{"
    /\ Positions(span, "w") = {}
    /\ \A k \in 1..(Len(span) - 1) : Depth(span, k) >= 1
    /\ Depth(span, Len(span)) = 0

Max(S) == CHOOSE x \in S : \A y \in S : x >= y

\* "dataset" in user_query.lower() or "data" in user_query.lower()
Queries == {"summarize the sales dataset", "plot revenue by month"}
MentionsData(user_query) == user_query = "summarize the sales dataset"

Plan(source, plan_id, steps) == [source |-> source, plan_id |-> plan_id, steps |-> steps]

\* PlannerAgent._create_fallback_plan
_create_fallback_plan(user_query) ==
    LET s1 == Step("s1", "kaggle.dataset.download", <<Pair("dataset_ref", StrVal)>>)
        s2 == Step("s2", "analyzer.eda", <<Pair("dataset_path", StrVal)>>)
    IN  Plan("fallback", "uuid",
             IF MentionsData(user_query) THEN <<s1, s2>> ELSE <<s2>>)

\* PlannerAgent._parse_plan_response: the text from the first "{" to the
\* last "}" through json.loads; {"plan_id": "error", "steps": []} when there
\* is no such span or json.loads raises
_parse_plan_response(response_text) ==
    LET opens  == Positions(response_text, "{")
        closes == Positions(response_text, "}")
    IN  IF /\ opens # {}
           /\ closes # {}
           /\ Max(closes) > Min(opens)
           /\ IsJsonObject(SubSeq(response_text, Min(opens), Max(closes)))
           THEN Plan("oracle", "oracle", SubSeq(response_text, Min(opens), Max(closes)))
           ELSE Plan("error", "error", <<>>)

Raised == [raised |-> TRUE, plan |-> None]
Returns(plan) == [raised |-> FALSE, plan |-> plan]

\* PlannerAgent.create_plan.  model: self.model is set; oracle: what
\* generate_content does; context: None, a dict json.dumps accepts, a dict
\* it raises on (the prompt is built before the try)
create_plan(user_query, context, model, oracle) ==
    IF context = "unserializable" THEN Raised
    ELSE IF model
       THEN IF oracle.raises
               THEN Returns(_create_fallback_plan(user_query))
               ELSE Returns(_parse_plan_response(oracle.text))
    ELSE Returns(_create_fallback_plan(user_query))

Oracles ==
    {[raises |-> TRUE, text |-> <<>>]} \cup {[raises |-> FALSE, text |-> t] : t \in Texts}

CreatePlanCalls ==
    { Call("create_plan", [user_query |-> q, context |-> c, model |-> m, oracle |-> o]) :
        q \in Queries, c \in {"none", "dict", "unserializable"},
        m \in BOOLEAN, o \in Oracles }

ApplyCreatePlan ==
    /\ call.fn = "create_plan" /\ ~call.done
    /\ call' = Return(call, create_plan(call.args.user_query, call.args.context,
                                        call.args.model, call.args.oracle))
    /\ UNCHANGED <<sys, stop_called>>

----------------------------------------------------------------------------
(* C20 *)

\* no part of the text is a JSON object
NoJsonObject(text) ==
    \A i, j \in DOMAIN text : i <= j => ~IsJsonObject(SubSeq(text, i, j))

\* C20: create_plan never raises, and when the oracle is absent, its call
\* fails or its answer holds no JSON plan, the plan returned is the fallback
\* plan, whose steps are not empty and include an analyzer.eda step.
C20_FallbackWhenNoPlan ==
    Returned("create_plan") =>
        /\ ~call.result.raised
        /\ ( \/ ~call.args.model
             \/ call.args.oracle.raises
             \/ NoJsonObject(call.args.oracle.text) )
           => /\ call.result.plan = _create_fallback_plan(call.args.user_query)
              /\ call.result.plan.steps # <<>>
              /\ \E k \in DOMAIN call.result.plan.steps :
                    call.result.plan.steps[k].tool_id = "analyzer.eda"

----------------------------------------------------------------------------
(* Calls of ToolRegistry.list_tools.  A registry is summarised by the      *)
(* auth.scope list of each tool; a tool without auth holds the empty list. *)

ToolIds == {"analyzer.eda", "executor.run_code", "kaggle.dataset.download"}
Scopes == {"analyzer:run", "executor:run", "datasets:write"}

\* the scope argument of list_tools: None, or a list of scopes (the order
\* and repetitions of a list do not matter to "s in tool_scopes")
NoFilter == [given |-> FALSE, scopes |-> {}]
Filter(S) == [given |-> TRUE, scopes |-> S]

\* ToolRegistry.list_tools: "if not scope" returns every tool, for None and
\* for the empty list alike; otherwise the tools with any(s in tool_scopes)
list_tools(scoped, scope) ==
    IF ~scope.given \/ scope.scopes = {}
       THEN DOMAIN scoped
       ELSE {id \in DOMAIN scoped : scoped[id] \cap scope.scopes # {}}

ListToolsCalls ==
    { Call("list_tools", [registry |-> r, scope |-> f]) :
        r \in [ToolIds -> SUBSET Scopes],
        f \in {NoFilter} \cup {Filter(S) : S \in SUBSET Scopes} }

ApplyListTools ==
    /\ call.fn = "list_tools" /\ ~call.done
    /\ call' = Return(call, list_tools(call.args.registry, call.args.scope))
    /\ UNCHANGED <<sys, stop_called>>

----------------------------------------------------------------------------
(* C21 *)

\* C21: list_tools returns all tools when no filter is given, and for every
\* filter given, the empty one included, exactly the tools whose auth.scope
\* shares an element with the filter.
C21_ScopeFilter ==
    Returned("list_tools") =>
        LET r == call.args.registry
            f == call.args.scope
        IN  call.result = IF f.given
                             THEN {id \in DOMAIN r : r[id] \cap f.scopes # {}}
                             ELSE DOMAIN r

----------------------------------------------------------------------------
(* RBAC (auth/rbac.py) *)

\* at most this many role strings / tool scopes in one check_tool_access call
MaxRoles == 2
MaxScopes == 2

\* class Role
Roles ==
    {"user", "researcher", "agent_planner", "agent_executor", "agent_evaluator", "admin"}

\* class Permission
Permissions ==
    {"tools:discover", "tools:invoke", "datasets:read", "datasets:write",
     "tasks:create", "tasks:read", "tasks:update", "tasks:delete",
     "executor:run", "analyzer:run", "approvals:approve", "approvals:reject",
     "plans:create", "plans:read", "evaluations:create", "evaluations:read"}

ROLE_PERMISSIONS ==
    [role \in Roles |->
        CASE role = "user" ->
                {"tools:discover", "datasets:read", "tasks:read"}
          [] role = "researcher" ->
                {"tools:discover", "tools:invoke", "datasets:read", "datasets:write",
                 "tasks:create", "tasks:read", "plans:read", "evaluations:read"}
          [] role = "agent_planner" ->
                {"tools:discover", "plans:create", "plans:read", "tasks:create",
                 "tasks:read"}
          [] role = "agent_executor" ->
                {"tools:invoke", "executor:run", "analyzer:run", "datasets:read",
                 "tasks:read", "tasks:update"}
          [] role = "agent_evaluator" ->
                {"evaluations:create", "evaluations:read", "tasks:read"}
          [] OTHER -> Permissions]

\* RBACService.get_permissions: Role(role_str) raises ValueError for a string
\* that is no role, and the loop goes on
RECURSIVE get_permissions(_)
get_permissions(roles) ==
    IF roles = <<>> THEN {}
    ELSE LET rest == get_permissions(Tail(roles)) IN
         IF Head(roles) \in Roles
            THEN ROLE_PERMISSIONS[Head(roles)] \cup rest
            ELSE rest

\* variant: every scope of the tool has to be held
check_tool_access_all(roles, tool_scopes) ==
    \A i \in DOMAIN tool_scopes : tool_scopes[i] \in get_permissions(roles)

\* RBACService.check_tool_access
check_tool_access(roles, tool_scopes) ==
    \E i \in DOMAIN tool_scopes : tool_scopes[i] \in get_permissions(roles)

\* the role strings and tool scopes the calls are made with: roles and
\* permissions of the tables, a string that is no role, a scope that is no
\* permission
RoleStrings == {"user", "researcher", "agent_executor", "admin", "guest"}
ScopeStrings ==
    {"tools:invoke", "executor:run", "datasets:write", "approvals:approve",
     "kaggle:download"}

AccessCalls ==
    { Call("check_tool_access", [roles |-> r, tool_scopes |-> s]) :
        r \in SeqsUpTo(RoleStrings, MaxRoles), s \in SeqsUpTo(ScopeStrings, MaxScopes) }

ApplyCheckToolAccess ==
    /\ call.fn = "check_tool_access" /\ ~call.done
    /\ call' = Return(call, check_tool_access(call.args.roles, call.args.tool_scopes))
    /\ UNCHANGED <<sys, stop_called>>

----------------------------------------------------------------------------
(* C22 *)

Elements(seq) == {seq[i] : i \in DOMAIN seq}

\* C22: check_tool_access grants exactly when one of the given roles that is
\* a defined role holds one of the tool's scopes; strings that are no role
\* add nothing, and an empty scope list is granted to no one.
C22_AccessIffSharedScope ==
    Returned("check_tool_access") =>
        LET roles  == Elements(call.args.roles)
            scopes == Elements(call.args.tool_scopes)
        IN  /\ call.result <=>
                 \E role \in roles \cap Roles : ROLE_PERMISSIONS[role] \cap scopes # {}
            /\ scopes = {} => ~call.result

\* a role that is none next to one that holds one of two scopes: granted
C22_Witness ==
    /\ Returned("check_tool_access")
    /\ call.args.roles = <<"guest", "agent_executor">>
    /\ call.args.tool_scopes = <<"kaggle:download", "executor:run">>
    /\ call.result

----------------------------------------------------------------------------
(* to_json followed by from_json *)

\* the values each typed payload field of a variant may hold
FieldValues(type) ==
    CASE type = "TASK_REQUEST" ->
            [f \in {"task_id", "tool_id", "inputs"} |->
                IF f = "inputs" THEN {DictVal} ELSE {StrVal}]
      [] type = "TASK_STATUS" ->
            [f \in {"task_id", "status", "progress"} |->
                IF f = "progress" THEN {FloatVal, NoneVal} ELSE {StrVal}]
      [] type = "TASK_RESULT" ->
            [f \in {"task_id", "status", "outputs", "error"} |->
                IF f = "outputs" THEN {DictVal, NoneVal}
                ELSE IF f = "error" THEN {StrVal, NoneVal} ELSE {StrVal}]
      [] type = "APPROVAL_REQUEST" ->
            [f \in {"task_id", "reason"} |-> {StrVal}]
      [] type = "APPROVAL_RESPONSE" ->
            [f \in {"task_id", "approver_id", "decision"} |->
                IF f = "decision" THEN {BoolVal(TRUE), BoolVal(FALSE)} ELSE {StrVal}]
      [] OTHER -> [f \in {} |-> {}]

\* the values a payload key outside the variant may hold
AnyValues == {StrVal, IntVal(1), FloatVal, BoolVal(TRUE), NoneVal, DictVal}

\* the payload dicts of a type: its typed fields, with or without one key
\* the variant does not know
Payloads(type) ==
    LET typed == FieldValues(type)
        vals  == AnyValues \cup {BoolVal(FALSE)}
    IN  { p \in [DOMAIN typed -> vals] : \A f \in DOMAIN typed : p[f] \in typed[f] }
        \cup
        { p \in [(DOMAIN typed) \cup {"extra"} -> vals] :
            /\ \A f \in DOMAIN typed : p[f] \in typed[f]
            /\ p["extra"] \in AnyValues }

RoundTripCalls ==
    UNION { { Call("round_trip",
                   [type |-> ty, from_agent |-> ExecutorId, to_agent |-> PlannerId,
                    trace_id |-> "trace-1", payload |-> p]) : p \in Payloads(ty) } :
            ty \in MessageTypes }

ApplyRoundTrip ==
    /\ call.fn = "round_trip" /\ ~call.done
    /\ call' = Return(call, from_json(to_json(call.args)))
    /\ UNCHANGED <<sys, stop_called>>

----------------------------------------------------------------------------
(* C23 *)

----------------------------------------------------------------------------
(* C24 *)

\* the positions in the executor's publish history written by the handling
\* of entry id
PubIdx(id) == {n \in DOMAIN published : published[n].by = id}

\* the handlings that reached _execute_tool and published its first status
Runs == {id \in 1..Len(stream) :
            \E n \in PubIdx(id) : IsStatus(published[n].msg)}

\* C24: for every task the executor runs, what it publishes for the task is
\* addressed to the requester and ordered: first TASK_STATUS running with
\* progress 0, published before the tool collaborator is called; then
\* TASK_STATUS messages with non-decreasing progress; last the TASK_RESULT,
\* which when completed carries outputs.
C24_RunOrder ==
    \A id \in Runs :
        LET idx   == PubIdx(id)
            first == Min(idx)
            last  == Max(idx)
            t     == published[first].msg.payload.task_id
        IN  /\ IsStatus(published[first].msg)
            /\ published[first].msg.payload.status = "running"
            /\ published[first].msg.payload.progress = 0
            /\ \A k \in DOMAIN tool_calls :
                  tool_calls[k].by = id => tool_calls[k].after >= first
            /\ \A n \in idx :
                  /\ AboutTask(published[n].msg, t)
                  /\ published[n].msg.to_agent = RequestOf(t).msg.from_agent
            /\ \A n \in idx \ {last} : IsStatus(published[n].msg)
            /\ \A n, m \in idx \ {last} :
                  n <= m => published[n].msg.payload.progress
                                <= published[m].msg.payload.progress
            /\ IsResult(published[last].msg)
            /\ published[last].msg.payload.status = "completed"
                  => published[last].msg.payload.outputs # None

\* a task ran to completion with progress updates between its first status
\* and its result, and the tool collaborator was called for it
C24_Witness ==
    \E id \in Runs :
        /\ Cardinality(PubIdx(id)) > 2
        /\ published[Max(PubIdx(id))].msg.payload.status = "completed"
        /\ \E k \in DOMAIN tool_calls : tool_calls[k].by = id

----------------------------------------------------------------------------
(* C25 *)

\* C25: the loop hands the entries of the partition to the handler in
\* append order, each once and one at a time: the publishes and the tool
\* calls of one handling all come before those of the next, and each
\* handling finds the parked-task table as the handling before it left it.
C25_FifoOneAtATime ==
    /\ \A i \in DOMAIN handled : handled[i].id = i
    /\ \A n, m \in DOMAIN published :
          n <= m => published[n].by <= published[m].by
    /\ \A n, m \in DOMAIN tool_calls :
          n <= m => tool_calls[n].by <= tool_calls[m].by
    /\ \A n \in DOMAIN published :
          published[n].by \in {handled[i].id : i \in DOMAIN handled}
    /\ \A i \in DOMAIN handled :
          handled[i].parked = IF i = 1 THEN {} ELSE handled[i - 1].parked_after
    /\ handled # <<>> => DOMAIN running_tasks = handled[Len(handled)].parked_after

\* every entry of a full log was handled, the first two handlings both
\* published, and the first one parked a task
C25_Witness ==
    /\ Len(handled) = MaxEntries
    /\ handled[1].parked_after # {}
    /\ PubsBy(1) # <<>>
    /\ PubsBy(2) # <<>>
    /\ \E j \in 1..MaxEntries : j >= 2 /\ IsRequest(stream[j])

----------------------------------------------------------------------------
(* load_manifests over a directory with files that do not parse *)

\* a *.json file of the manifests directory: json.load returns a manifest,
\* or raises
ManifestFile(manifest) == [parsed |-> TRUE, manifest |-> manifest]
BrokenFile == [parsed |-> FALSE, manifest |-> [tool_id |-> None]]

\* the files the directory may hold: any of the shipped manifests, and a
\* file that is no JSON
DirFiles == {ManifestFile(Manifests[id]) : id \in DOMAIN Manifests} \cup {BrokenFile}

\* the loop body of load_manifests over the files: a file that raises is
\* logged and passed over, the others are keyed by their tool_id
ReadDir(files) ==
    LET good == {f \in files : f.parsed /\ f.manifest.tool_id # None}
    IN  [id \in {f.manifest.tool_id : f \in good} |->
            (CHOOSE f \in good : f.manifest.tool_id = id).manifest]

\* ToolRegistry(): self.tools = {}
EmptyRegistry == [id \in {} |-> None]

\* load_manifests run by __init__ on the empty registry, or run again on a
\* registry that holds the shipped manifests
LoadCalls ==
    { Call("load_manifests", [reg |-> reg, files |-> files]) :
        reg \in {EmptyRegistry, Manifests}, files \in SUBSET DirFiles }

ApplyLoadManifests ==
    /\ call.fn = "load_manifests" /\ ~call.done
    /\ call' = Return(call, load_manifests(call.args.reg, ReadDir(call.args.files)))
    /\ UNCHANGED <<sys, stop_called>>

----------------------------------------------------------------------------
(* C26 *)

\* C26: after load_manifests has run, first or again, the registry holds
\* exactly the files of the directory that parse, keyed by tool_id: a file
\* that does not parse is passed over, and no tool stays whose file is gone.
C26_LoadExact ==
    Returned("load_manifests") =>
        call.result = ReadDir(call.args.files)

\* the part that holds: the first load is exact, a file that does not parse
\* among the others included, and every load holds every file that parses
C26_FirstLoadExact ==
    Returned("load_manifests") =>
        /\ call.args.reg = EmptyRegistry => call.result = ReadDir(call.args.files)
        /\ \A id \in DOMAIN ReadDir(call.args.files) :
              /\ id \in DOMAIN call.result
              /\ call.result[id] = ReadDir(call.args.files)[id]

----------------------------------------------------------------------------
(* C27 *)

\* C27: one handling of a TASK_REQUEST, or of an APPROVAL_RESPONSE for a
\* parked task, publishes at most one TASK_RESULT, and it publishes no
\* TASK_STATUS after that TASK_RESULT; all it publishes is about one task_id.
C27_OneResultLast ==
    \A i \in DOMAIN handled :
        LET pubs == PubsBy(handled[i].id)
            res  == {n \in DOMAIN pubs : IsResult(pubs[n].msg)}
        IN  /\ Cardinality(res) <= 1
            /\ \A n \in res, m \in DOMAIN pubs :
                  m > n => ~IsStatus(pubs[m].msg)
            /\ \A n, m \in DOMAIN pubs :
                  AboutTask(pubs[n].msg, pubs[m].msg.payload.task_id)

\* the handling of an approving APPROVAL_RESPONSE ran the parked task and
\* published statuses and then the result
C27_Witness ==
    \E i \in DOMAIN handled :
        LET pubs == PubsBy(handled[i].id) IN
        /\ IsResponse(stream[handled[i].id])
        /\ Len(pubs) > 2
        /\ IsStatus(pubs[1].msg)
        /\ IsResult(pubs[Len(pubs)].msg)

----------------------------------------------------------------------------
(* C28 *)

\* C28: every task_id in the parked-task table has an APPROVAL_REQUEST for
\* that task_id in the approver's partition of the log, also after a publish
\* failed: no task is parked without its approval request appended.
C28_ParkedHasRequest ==
    \A t \in DOMAIN running_tasks :
        \E n \in DOMAIN Partition(Director) :
            /\ Partition(Director)[n].msg.type = "APPROVAL_REQUEST"
            /\ AboutTask(Partition(Director)[n].msg, t)

\* the part that holds: the executor called publish with an APPROVAL_REQUEST
\* for every valid task_id it parked
C28_ParkedWasRequested ==
    \A t \in DOMAIN running_tasks :
        ValidTaskId(t) =>
            \E n \in DOMAIN published :
                /\ published[n].msg.type = "APPROVAL_REQUEST"
                /\ published[n].msg.to_agent = Director
                /\ AboutTask(published[n].msg, t)

----------------------------------------------------------------------------
(* C29: an approval response that does not come from the director *)

\* an agent other than the director publishes an approving
\* APPROVAL_RESPONSE for task t1 to agents:executor.agent.v1
SendForgedDecision ==
    /\ Len(stream) < MaxEntries
    /\ stream' = Append(stream,
                   Entry("msg", create_approval_response(PlannerId, "t1",
                                                         TRUE, TraceOf("t1"))))
    /\ UNCHANGED <<tools, last_delivered, pending, running, pc, batch,
                   running_tasks, published, tool_calls, handled, faults>>
    /\ UNCHANGED aux

NextForged ==
    \/ SendRunCode
    \/ SendDecision
    \/ SendForgedDecision
    \/ Subscribe
    \/ XReadGroup
    \/ ProcessEntry

\* the executor with approval traffic for one task, from the director and
\* from another agent
SpecForged == Init /\ [][NextForged]_vars

\* C29: a parked task is released to execution only by an APPROVAL_RESPONSE
\* sent by the director, the agent its APPROVAL_REQUEST was addressed to: an
\* approving response for the task from any other agent runs no tool.
C29_OnlyDirectorReleases ==
    \A k \in DOMAIN tool_calls :
        LET e == stream[tool_calls[k].by] IN
        /\ IsResponse(e)
        /\ e.msg.from_agent = Director

\* the part that holds: the tool of the approval-required task runs only in
\* the handling of an approving APPROVAL_RESPONSE for that task
C29_OnlyApprovalReleases ==
    \A k \in DOMAIN tool_calls :
        LET e == stream[tool_calls[k].by] IN
        /\ IsResponse(e)
        /\ e.msg.payload.decision
        /\ TaskOf(e) = tool_calls[k].task_id

----------------------------------------------------------------------------
(* C30: messages published before the first subscribe *)

\* publish to agents:executor.agent.v1 while the executor has not subscribed
SendBeforeSubscribe ==
    /\ pc = "idle"
    /\ (SendTaskRequest \/ SendApprovalResponse)

NextBacklog ==
    \/ SendBeforeSubscribe
    \/ Subscribe
    \/ XReadGroup
    \/ ProcessEntry

\* the executor whose partition is written only before it subscribes
SpecBacklog == Init /\ [][NextBacklog]_vars

\* C30: every message published to the agent's partition before its first
\* subscribe is handed to its handler after it: the group starts at the
\* beginning of the log, every read continues where the last one ended, and
\* once the loop has read up to the end each entry has had its handling.
C30_BacklogDelivered ==
    /\ pc \in {"loop", "batch"} =>
          \A j \in 1..last_delivered :
              \/ j \in BatchIds
              \/ \E i \in DOMAIN handled :
                    handled[i].id = j /\ handled[i].outcome \in {"returned", "raised"}
    /\ (pc = "loop" /\ last_delivered = Len(stream)) =>
          \A j \in DOMAIN stream :
              \E i \in DOMAIN handled :
                  handled[i].id = j /\ handled[i].outcome \in {"returned", "raised"}

\* a full log written before the subscribe was handed to the handler entry
\* by entry, the first one included
C30_Witness ==
    /\ pc = "loop"
    /\ Len(stream) = MaxEntries
    /\ last_delivered = Len(stream)
    /\ Len(handled) = MaxEntries
    /\ handled[1].id = 1
    /\ PubsBy(1) # <<>>

----------------------------------------------------------------------------
(* One call of one of the functions *)

AllCalls ==
    ValidateCalls \cup FromJsonCalls \cup ExecutePlanCalls \cup CreatePlanCalls
        \cup ListToolsCalls \cup AccessCalls \cup RoundTripCalls
        \cup LoadCalls

InitCalls ==
    /\ InitSys
    /\ stop_called = FALSE
    /\ call \in AllCalls

NextCalls ==
    \/ ApplyValidate
    \/ ApplyFromJson
    \/ ApplyExecutePlan
    \/ ApplyCreatePlan
    \/ ApplyListTools
    \/ ApplyCheckToolAccess
    \/ ApplyRoundTrip
    \/ ApplyLoadManifests

SpecCalls == InitCalls /\ [][NextCalls]_vars

====
